---- MODULE Spec2Model ----
(***************************************************************************)
(* Model of the ingestion paths of the RAG pipeline:                       *)
(*   - upload_file            (src/main.py, POST /upload)                  *)
(*   - process_documents      (src/rag_milvus.py, CLI batch ingestion)     *)
(* against one Milvus collection.  Every action is one call to an external *)
(* collaborator (file read, converter+chunker, embedding service, store)   *)
(* together with the local code that follows it up to the next call, so    *)
(* that overlapping calls interleave exactly at the external calls.        *)
(***************************************************************************)
EXTENDS Integers, Sequences, FiniteSets, TLC

\* ------------------------------------------------------------------ bounds
MaxChunks == 3   \* largest number of chunks the chunker yields for one file
MaxRows   == 2   \* calls start only while the collection holds fewer rows
MaxFaults == 2   \* failures of external calls in one behaviour

Procs     == {1, 2}   \* request handlers / CLI processes that may overlap
SeqProcs  == {1}      \* the one caller of the sequential specification

\* --------------------------------------------------------------- file names
Name_pdf   == <<"r", ".", "p", "d", "f">>
Name_docx  == <<"w", ".", "d", "o", "c", "x">>
Name_txt   == <<"n", ".", "t", "x", "t">>
Name_upper == <<"u", ".", "P", "D", "F">>
Name_nodot == <<"x", "p", "d", "f">>

Ext_pdf  == <<".", "p", "d", "f">>
Ext_docx == <<".", "d", "o", "c", "x">>

UploadNames == {Name_pdf, Name_docx, Name_txt, Name_upper, Name_nodot}

\* str.endswith
EndsWith(s, suf) ==
    /\ Len(s) >= Len(suf)
    /\ SubSeq(s, Len(s) - Len(suf) + 1, Len(s)) = suf

\* variant: the suffixes are given without their dot
AllowedExtension_NoDot(filename) ==
    EndsWith(filename, Tail(Ext_pdf)) \/ EndsWith(filename, Tail(Ext_docx))

\* main.py:69  file.filename.endswith(('.pdf', '.docx'))
AllowedExtension(filename) ==
    EndsWith(filename, Ext_pdf) \/ EndsWith(filename, Ext_docx)

\* A file: its name and the number of chunks converter+chunker yield for it.
FileOf(name, n) == [name |-> name, n |-> n]

\* converter.convert(path).document ; list(chunker.chunk(doc)):
\* the ordered chunk texts of a file (text i of file f is <<stem, i>>).
ChunkList(f) == [i \in 1..f.n |-> <<f.name[1], i>>]

\* rag_milvus.py:43-48  emb_text: the remote embedding of a text
emb_text(text) == <<"vec", text>>

\* The dict appended to data for one chunk.
Record(id, text) == [id |-> id, vector |-> emb_text(text), text |-> text]

\* variant: the counter is advanced twice per chunk
NextChunkId_Skip(id) == id + 2

\* rag_milvus.py:113, main.py:95  chunk_id += 1
NextChunkId(id) == id + 1

\* ------------------------------------------------------------ store (Milvus)
\* get_collection_stats(...)['row_count']
RowCount(coll) == Len(coll)

\* milvus_client.insert: appends the records, no dedup, no upsert
StoreInsert(coll, recs) == coll \o recs

\* result['insert_count']
InsertCount(recs) == Len(recs)

\* ------------------------------------------------------------------- state
VARIABLES
    appStarted,     \* main.py has been imported (ensure_collection has run)
    hasCollection,  \* the collection exists in the store
    collection,     \* the records of the collection, in insertion order
    tmpFiles,       \* temporary files present on disk (by path)
    pc,             \* per caller: position in upload_file / process_documents
    kind,           \* per caller: "none" | "upload" | "batch"
    file,           \* upload_file: the UploadFile (name and content)
    tmp_path,       \* upload_file: tmp.name, 0 before the file is created
    files,          \* process_documents: the globbed file list
    fi,             \* process_documents: index of the file of the for loop
    current_count,  \* process_documents: row count read from the stats
    chunks,         \* list(chunker.chunk(doc)) of the file being processed
    ci,             \* index of the next chunk of the embedding loop
    data,           \* the records prepared so far
    chunk_id,       \* the id counter
    response,       \* upload_file: the HTTP response of the finished request
    log,            \* per caller: the external calls of the current call, in order
    nfaults         \* external-call failures so far

vars == <<appStarted, hasCollection, collection, tmpFiles, pc, kind, file,
          tmp_path, files, fi, current_count, chunks, ci, data, chunk_id,
          response, log, nfaults>>

storeVars == <<hasCollection, collection>>
batchVars == <<files, fi, current_count>>
uploadVars == <<file, tmp_path, response>>

NoFile == FileOf(<<>>, 0)
NoResponse == [status |-> 0, detail |-> <<>>, filename |-> <<>>,
               chunks_count |-> 0, insert_count |-> 0]

\* One external call in the log.
Call(name, f, c, ok, recs) ==
    [call |-> name, file |-> f, chunk |-> c, ok |-> ok, data |-> recs]

CanFail == nfaults < MaxFaults

Init ==
    /\ appStarted = FALSE
    /\ hasCollection = FALSE
    /\ collection = <<>>
    /\ tmpFiles = {}
    /\ pc = [p \in Procs |-> "idle"]
    /\ kind = [p \in Procs |-> "none"]
    /\ file = [p \in Procs |-> NoFile]
    /\ tmp_path = [p \in Procs |-> 0]
    /\ files = [p \in Procs |-> <<>>]
    /\ fi = [p \in Procs |-> 0]
    /\ current_count = [p \in Procs |-> 0]
    /\ chunks = [p \in Procs |-> <<>>]
    /\ ci = [p \in Procs |-> 0]
    /\ data = [p \in Procs |-> <<>>]
    /\ chunk_id = [p \in Procs |-> 0]
    /\ response = [p \in Procs |-> NoResponse]
    /\ log = [p \in Procs |-> <<>>]
    /\ nfaults = 0

\* main.py:46-56  ensure_collection(), run once when the service starts
ensure_collection ==
    /\ ~appStarted
    /\ appStarted' = TRUE
    /\ hasCollection' = TRUE
    /\ UNCHANGED <<collection, tmpFiles, pc, kind, file, tmp_path, files, fi,
                   current_count, chunks, ci, data, chunk_id, response, log,
                   nfaults>>

\* ------------------------------------------------------------- upload_file
\* HTTPException(status_code, detail)
HTTPError(status, detail, f) ==
    [status |-> status, detail |-> detail, filename |-> f.name,
     chunks_count |-> 0, insert_count |-> 0]

\* str(e) of an exception raised inside the try block
StrHTTPException(status, msg) == <<status, msg>>

\* variant: the except clause drops the exception's message
Handled500_NoMessage(f, msg) == HTTPError(500, <<"Error processing file">>, f)

\* main.py:110-112  except Exception as e: raise HTTPException(500, f"Error processing file: {e}")
Handled500(f, msg) == HTTPError(500, <<"Error processing file", msg>>, f)

\* main.py:113-116  finally: if os.path.exists(tmp_path): os.unlink(tmp_path)
Cleanup(disk, path) == disk \ {path}

\* tempfile.NamedTemporaryFile: a path not on disk yet
FreshPath(disk) == CHOOSE n \in 1..(Cardinality(disk) + 1) : n \notin disk

\* main.py:67-73  the extension check and the creation of the temporary file
UploadStart(p, f) ==
    /\ appStarted
    /\ pc[p] = "idle"
    /\ RowCount(collection) < MaxRows
    /\ kind' = [kind EXCEPT ![p] = "upload"]
    /\ file' = [file EXCEPT ![p] = f]
    /\ log' = [log EXCEPT ![p] = <<>>]
    /\ chunks' = [chunks EXCEPT ![p] = <<>>]
    /\ data' = [data EXCEPT ![p] = <<>>]
    /\ chunk_id' = [chunk_id EXCEPT ![p] = 0]
    /\ ci' = [ci EXCEPT ![p] = 0]
    /\ IF ~AllowedExtension(f.name)
       THEN /\ response' = [response EXCEPT ![p] =
                  HTTPError(400, <<"Only PDF and DOCX files allowed">>, f)]
            /\ pc' = [pc EXCEPT ![p] = "done"]
            /\ tmp_path' = [tmp_path EXCEPT ![p] = 0]
            /\ UNCHANGED tmpFiles
       ELSE /\ response' = [response EXCEPT ![p] = NoResponse]
            /\ pc' = [pc EXCEPT ![p] = "read"]
            /\ tmp_path' = [tmp_path EXCEPT ![p] = FreshPath(tmpFiles)]
            /\ tmpFiles' = tmpFiles \cup {FreshPath(tmpFiles)}
    /\ UNCHANGED <<appStarted, storeVars, batchVars, nfaults>>

\* main.py:74-76  content = await file.read(); tmp.write(content); tmp_path = tmp.name
\* A failure here is raised before the try block: the with block closes the
\* file (delete=False keeps it) and the framework answers 500.
UploadRead(p) ==
    /\ pc[p] = "read"
    /\ \E ok \in BOOLEAN :
        /\ ~ok => CanFail
        /\ nfaults' = IF ok THEN nfaults ELSE nfaults + 1
        /\ log' = [log EXCEPT ![p] = Append(@, Call("read", 0, 0, ok, <<>>))]
        /\ IF ok
           THEN /\ pc' = [pc EXCEPT ![p] = "convert"]
                /\ UNCHANGED response
           ELSE /\ pc' = [pc EXCEPT ![p] = "done"]
                /\ response' = [response EXCEPT ![p] =
                      HTTPError(500, <<"Internal Server Error">>, file[p])]
    /\ UNCHANGED <<appStarted, storeVars, tmpFiles, kind, file, tmp_path,
                   batchVars, chunks, ci, data, chunk_id>>

\* main.py:81-86  convert, chunk, data = [], chunk_id = 0
UploadConvert(p) ==
    /\ pc[p] = "convert"
    /\ \E ok \in BOOLEAN :
        /\ ~ok => CanFail
        /\ nfaults' = IF ok THEN nfaults ELSE nfaults + 1
        /\ log' = [log EXCEPT ![p] = Append(@, Call("convert", 0, 0, ok, <<>>))]
        /\ IF ok
           THEN /\ chunks' = [chunks EXCEPT ![p] = ChunkList(file[p])]
                /\ data' = [data EXCEPT ![p] = <<>>]
                /\ chunk_id' = [chunk_id EXCEPT ![p] = 0]
                /\ ci' = [ci EXCEPT ![p] = 1]
                /\ pc' = [pc EXCEPT ![p] =
                      IF file[p].n = 0 THEN "insert" ELSE "embed"]
                /\ UNCHANGED <<response, tmpFiles>>
           ELSE /\ response' = [response EXCEPT ![p] =
                      Handled500(file[p], "conversion failed")]
                /\ tmpFiles' = Cleanup(tmpFiles, tmp_path[p])
                /\ pc' = [pc EXCEPT ![p] = "done"]
                /\ UNCHANGED <<chunks, data, chunk_id, ci>>
    /\ UNCHANGED <<appStarted, storeVars, kind, file, tmp_path, batchVars>>

\* main.py:88-95  one iteration of the embedding loop
UploadEmbed(p) ==
    /\ pc[p] = "embed"
    /\ \E ok \in BOOLEAN :
        /\ ~ok => CanFail
        /\ nfaults' = IF ok THEN nfaults ELSE nfaults + 1
        /\ log' = [log EXCEPT ![p] = Append(@, Call("embed", 0, ci[p], ok, <<>>))]
        /\ IF ok
           THEN /\ data' = [data EXCEPT ![p] =
                      Append(@, Record(chunk_id[p], chunks[p][ci[p]]))]
                /\ chunk_id' = [chunk_id EXCEPT ![p] = NextChunkId(@)]
                /\ ci' = [ci EXCEPT ![p] = @ + 1]
                /\ pc' = [pc EXCEPT ![p] =
                      IF ci[p] = Len(chunks[p]) THEN "insert" ELSE "embed"]
                /\ UNCHANGED <<response, tmpFiles>>
           ELSE /\ response' = [response EXCEPT ![p] =
                      Handled500(file[p], "embedding failed")]
                /\ tmpFiles' = Cleanup(tmpFiles, tmp_path[p])
                /\ pc' = [pc EXCEPT ![p] = "done"]
                /\ UNCHANGED <<data, chunk_id, ci>>
    /\ UNCHANGED <<appStarted, storeVars, kind, file, tmp_path, batchVars,
                   chunks>>

\* main.py:102-106  the success response
UploadOk(f, result_count, chunk_list) ==
    [status |-> 200, detail |-> <<>>, filename |-> f.name,
     chunks_count |-> Len(chunk_list), insert_count |-> result_count]

\* main.py:97-116  if data: insert and return; else raise 400 -- inside the
\* try block, so that "except Exception" catches the HTTPException as well.
UploadInsert(p) ==
    /\ pc[p] = "insert"
    /\ pc' = [pc EXCEPT ![p] = "done"]
    /\ tmpFiles' = Cleanup(tmpFiles, tmp_path[p])
    /\ IF data[p] # <<>>
       THEN \E ok \in BOOLEAN :
            /\ ~ok => CanFail
            /\ nfaults' = IF ok THEN nfaults ELSE nfaults + 1
            /\ log' = [log EXCEPT ![p] =
                  Append(@, Call("insert", 0, 0, ok, data[p]))]
            /\ IF ok
               THEN /\ collection' = StoreInsert(collection, data[p])
                    /\ response' = [response EXCEPT ![p] =
                          UploadOk(file[p], InsertCount(data[p]), chunks[p])]
               ELSE /\ response' = [response EXCEPT ![p] =
                          Handled500(file[p], "insert failed")]
                    /\ UNCHANGED collection
       ELSE /\ response' = [response EXCEPT ![p] =
                  Handled500(file[p], StrHTTPException(400,
                      "No content could be extracted from file"))]
            /\ UNCHANGED <<collection, log, nfaults>>
    /\ UNCHANGED <<appStarted, hasCollection, kind, file, tmp_path, batchVars,
                   chunks, ci, data, chunk_id>>

Upload(p) ==
    \/ \E name \in UploadNames, n \in 0..MaxChunks : UploadStart(p, FileOf(name, n))
    \/ UploadRead(p)
    \/ UploadConvert(p)
    \/ UploadEmbed(p)
    \/ UploadInsert(p)

\* ------------------------------------------------------- process_documents
\* The working directory: at most one file per name, each with its content.
DirNames == {Name_pdf, Name_docx, Name_txt}
Directories ==
    { d \in SUBSET { FileOf(name, n) : name \in DirNames, n \in 0..MaxChunks } :
        /\ \A f, g \in d : f.name = g.name => f = g
        /\ \A f \in d : f.name = Name_txt => f.n = 1 }

\* Path.glob('*' + ext) over a directory holding at most one file per name
Glob(dir, ext) ==
    LET hits == { f \in dir : EndsWith(f.name, ext) }
    IN  IF hits = {} THEN <<>> ELSE <<CHOOSE f \in hits : TRUE>>

\* rag_milvus.py:67  files = list(glob('*.pdf')) + list(glob('*.docx'))
FindFiles(dir) == Glob(dir, Ext_pdf) \o Glob(dir, Ext_docx)

\* rag_milvus.py:85-89  row_count of the stats, 0 when the call raises
ReadCurrentCount(ok, coll) == IF ok THEN RowCount(coll) ELSE 0

\* variant: the counter starts one past the row count
FirstChunkId_OffByOne(count) == count + 1

\* rag_milvus.py:93  chunk_id = current_count
FirstChunkId(count) == count

\* rag_milvus.py:95  the for loop moves to the next file, or ends
NextFilePc(i, n) == IF i = n THEN "pd_insert" ELSE "pd_convert"

\* variant: a failed file ends the loop
PcAfterFileError_Break(i, n) == "pd_insert"

\* rag_milvus.py:116-117  except Exception: print, and the loop goes on
PcAfterFileError(i, n) == NextFilePc(i, n)

\* variant: the except clause drops the records of the failed file
DataAfterFileError_Rollback(d, k) == SubSeq(d, 1, Len(d) - k)

\* rag_milvus.py:116-117  the except clause leaves data and chunk_id alone
\* (k records of the failed file are already in d)
DataAfterFileError(d, k) == d
IdAfterFileError(id, k) == id

\* rag_milvus.py:50-73  glob the files, return when there are none
PDStart(p, dir) ==
    /\ pc[p] = "idle"
    /\ RowCount(collection) < MaxRows
    /\ kind' = [kind EXCEPT ![p] = "batch"]
    /\ files' = [files EXCEPT ![p] = FindFiles(dir)]
    /\ fi' = [fi EXCEPT ![p] = 0]
    /\ current_count' = [current_count EXCEPT ![p] = 0]
    /\ log' = [log EXCEPT ![p] = <<>>]
    /\ chunks' = [chunks EXCEPT ![p] = <<>>]
    /\ data' = [data EXCEPT ![p] = <<>>]
    /\ chunk_id' = [chunk_id EXCEPT ![p] = 0]
    /\ ci' = [ci EXCEPT ![p] = 0]
    /\ file' = [file EXCEPT ![p] = NoFile]
    /\ tmp_path' = [tmp_path EXCEPT ![p] = 0]
    /\ response' = [response EXCEPT ![p] = NoResponse]
    /\ pc' = [pc EXCEPT ![p] =
          IF FindFiles(dir) = <<>> THEN "done" ELSE "pd_setup"]
    /\ UNCHANGED <<appStarted, storeVars, tmpFiles, nfaults>>

\* rag_milvus.py:75-82  create the collection when it does not exist
PDSetup(p) ==
    /\ pc[p] = "pd_setup"
    /\ hasCollection' = TRUE
    /\ pc' = [pc EXCEPT ![p] = "pd_stats"]
    /\ UNCHANGED <<appStarted, collection, tmpFiles, kind, uploadVars,
                   batchVars, chunks, ci, data, chunk_id, log, nfaults>>

\* rag_milvus.py:84-93  read the row count; data = [], chunk_id = current_count
PDStats(p) ==
    /\ pc[p] = "pd_stats"
    /\ \E ok \in BOOLEAN :
        /\ ~ok => CanFail
        /\ nfaults' = IF ok THEN nfaults ELSE nfaults + 1
        /\ log' = [log EXCEPT ![p] = Append(@, Call("stats", 0, 0, ok, <<>>))]
        /\ current_count' = [current_count EXCEPT ![p] =
              ReadCurrentCount(ok, collection)]
        /\ chunk_id' = [chunk_id EXCEPT ![p] =
              FirstChunkId(ReadCurrentCount(ok, collection))]
    /\ data' = [data EXCEPT ![p] = <<>>]
    /\ fi' = [fi EXCEPT ![p] = 1]
    /\ pc' = [pc EXCEPT ![p] = "pd_convert"]
    /\ UNCHANGED <<appStarted, storeVars, tmpFiles, kind, uploadVars, files,
                   chunks, ci>>

\* rag_milvus.py:95-103  convert and chunk the next file
PDConvert(p) ==
    /\ pc[p] = "pd_convert"
    /\ \E ok \in BOOLEAN :
        /\ ~ok => CanFail
        /\ nfaults' = IF ok THEN nfaults ELSE nfaults + 1
        /\ log' = [log EXCEPT ![p] =
              Append(@, Call("convert", fi[p], 0, ok, <<>>))]
        /\ IF ok
           THEN /\ chunks' = [chunks EXCEPT ![p] = ChunkList(files[p][fi[p]])]
                /\ ci' = [ci EXCEPT ![p] = 1]
                /\ IF files[p][fi[p]].n = 0
                   THEN /\ pc' = [pc EXCEPT ![p] =
                              NextFilePc(fi[p], Len(files[p]))]
                        /\ fi' = [fi EXCEPT ![p] = @ + 1]
                   ELSE /\ pc' = [pc EXCEPT ![p] = "pd_embed"]
                        /\ UNCHANGED fi
                /\ UNCHANGED <<data, chunk_id>>
           ELSE /\ pc' = [pc EXCEPT ![p] =
                      PcAfterFileError(fi[p], Len(files[p]))]
                /\ fi' = [fi EXCEPT ![p] = @ + 1]
                /\ data' = [data EXCEPT ![p] = DataAfterFileError(@, 0)]
                /\ chunk_id' = [chunk_id EXCEPT ![p] = IdAfterFileError(@, 0)]
                /\ UNCHANGED <<chunks, ci>>
    /\ UNCHANGED <<appStarted, storeVars, tmpFiles, kind, uploadVars, files,
                   current_count>>

\* rag_milvus.py:106-117  one iteration of the embedding loop of a file
PDEmbed(p) ==
    /\ pc[p] = "pd_embed"
    /\ \E ok \in BOOLEAN :
        /\ ~ok => CanFail
        /\ nfaults' = IF ok THEN nfaults ELSE nfaults + 1
        /\ log' = [log EXCEPT ![p] =
              Append(@, Call("embed", fi[p], ci[p], ok, <<>>))]
        /\ IF ok
           THEN /\ data' = [data EXCEPT ![p] =
                      Append(@, Record(chunk_id[p], chunks[p][ci[p]]))]
                /\ chunk_id' = [chunk_id EXCEPT ![p] = NextChunkId(@)]
                /\ ci' = [ci EXCEPT ![p] = @ + 1]
                /\ IF ci[p] = Len(chunks[p])
                   THEN /\ pc' = [pc EXCEPT ![p] =
                              NextFilePc(fi[p], Len(files[p]))]
                        /\ fi' = [fi EXCEPT ![p] = @ + 1]
                   ELSE UNCHANGED <<pc, fi>>
           ELSE /\ pc' = [pc EXCEPT ![p] =
                      PcAfterFileError(fi[p], Len(files[p]))]
                /\ fi' = [fi EXCEPT ![p] = @ + 1]
                /\ data' = [data EXCEPT ![p] = DataAfterFileError(@, ci[p] - 1)]
                /\ chunk_id' = [chunk_id EXCEPT ![p] =
                      IdAfterFileError(@, ci[p] - 1)]
                /\ UNCHANGED ci
    /\ UNCHANGED <<appStarted, storeVars, tmpFiles, kind, uploadVars, files,
                   current_count, chunks>>

\* rag_milvus.py:119-122  if data: one insert of everything prepared
PDInsert(p) ==
    /\ pc[p] = "pd_insert"
    /\ pc' = [pc EXCEPT ![p] = "done"]
    /\ IF data[p] # <<>>
       THEN \E ok \in BOOLEAN :
            /\ ~ok => CanFail
            /\ nfaults' = IF ok THEN nfaults ELSE nfaults + 1
            /\ log' = [log EXCEPT ![p] =
                  Append(@, Call("insert", 0, 0, ok, data[p]))]
            /\ collection' = IF ok THEN StoreInsert(collection, data[p])
                                   ELSE collection
       ELSE UNCHANGED <<collection, log, nfaults>>
    /\ UNCHANGED <<appStarted, hasCollection, tmpFiles, kind, uploadVars,
                   batchVars, chunks, ci, data, chunk_id>>

process_documents(p) ==
    \/ \E dir \in Directories : PDStart(p, dir)
    \/ PDSetup(p)
    \/ PDStats(p)
    \/ PDConvert(p)
    \/ PDEmbed(p)
    \/ PDInsert(p)

\* The call has ended (returned or raised): its locals are gone.
Return(p) ==
    /\ pc[p] = "done"
    /\ pc' = [pc EXCEPT ![p] = "idle"]
    /\ kind' = [kind EXCEPT ![p] = "none"]
    /\ file' = [file EXCEPT ![p] = NoFile]
    /\ tmp_path' = [tmp_path EXCEPT ![p] = 0]
    /\ files' = [files EXCEPT ![p] = <<>>]
    /\ fi' = [fi EXCEPT ![p] = 0]
    /\ current_count' = [current_count EXCEPT ![p] = 0]
    /\ chunks' = [chunks EXCEPT ![p] = <<>>]
    /\ ci' = [ci EXCEPT ![p] = 0]
    /\ data' = [data EXCEPT ![p] = <<>>]
    /\ chunk_id' = [chunk_id EXCEPT ![p] = 0]
    /\ response' = [response EXCEPT ![p] = NoResponse]
    /\ log' = [log EXCEPT ![p] = <<>>]
    /\ UNCHANGED <<appStarted, storeVars, tmpFiles, nfaults>>

\* ---------------------------------------------------------- specifications
\* Sequential calls: one caller, each call runs to its end before the next.
Next ==
    \/ ensure_collection
    \/ \E p \in SeqProcs : Upload(p) \/ process_documents(p) \/ Return(p)

Spec == Init /\ [][Next]_vars

\* Overlapping calls: two callers, one call each, interleaved at the
\* external calls.
MaxConcChunks == 1
ConcDirectories == { d \in Directories : \A f \in d : f.n <= MaxConcChunks }

ConcStart(p) ==
    /\ pc[p] = "idle"
    /\ \/ \E name \in UploadNames, n \in 0..MaxConcChunks :
              UploadStart(p, FileOf(name, n))
       \/ \E dir \in ConcDirectories : PDStart(p, dir)

ConcStep(p) ==
    \/ ConcStart(p)
    \/ UploadRead(p) \/ UploadConvert(p) \/ UploadEmbed(p) \/ UploadInsert(p)
    \/ PDSetup(p) \/ PDStats(p) \/ PDConvert(p) \/ PDEmbed(p) \/ PDInsert(p)

NextConc == ensure_collection \/ \E p \in Procs : ConcStep(p)

SpecConc == Init /\ [][NextConc]_vars

\* ------------------------------------------------------------------ claims
Ids(recs) == { recs[i].id : i \in 1..Len(recs) }
Texts(recs) == { recs[i].text : i \in 1..Len(recs) }
DistinctIds(recs) ==
    \A i, j \in 1..Len(recs) : i # j => recs[i].id # recs[j].id
\* recs carries the ids base, base+1, ... in order
ContiguousFrom(recs, base) ==
    \A i \in 1..Len(recs) : recs[i].id = base + i - 1
\* at least two records of recs carry this id
Twice(recs, id) ==
    \E i, j \in 1..Len(recs) : i # j /\ recs[i].id = id /\ recs[j].id = id

UploadDone(p) == kind[p] = "upload" /\ pc[p] = "done"
BatchDone(p) == kind[p] = "batch" /\ pc[p] = "done" /\ files[p] # <<>>
Entries(p, name) == { k \in 1..Len(log[p]) : log[p][k].call = name }
Succeeded(p, name) == \E k \in Entries(p, name) : log[p][k].ok
Failed(p, name) == \E k \in Entries(p, name) : ~log[p][k].ok
RejectedNames == {Name_txt, Name_upper, Name_nodot}

\* C1: an upload of a .pdf/.docx file whose conversion and chunking succeed
\* with zero chunks ends with HTTP 400, never 200 or 500, and issues no insert.
C1_ZeroChunksIsClientError ==
    \A p \in Procs :
        (UploadDone(p) /\ Succeeded(p, "convert") /\ chunks[p] = <<>>)
            => /\ response[p].status = 400
               /\ Entries(p, "insert") = {}

\* C2: the temporary file of an upload is gone once the handler has exited,
\* on every exit path, a failed read or write of the uploaded bytes included.
C2_TempFileRemoved ==
    \A p \in Procs :
        (UploadDone(p) /\ tmp_path[p] # 0) => tmp_path[p] \notin tmpFiles

\* C3: after sequential successful ingestions, through upload and
\* process_documents in any order, all ids of the collection are distinct.
C3_IdsPairwiseDistinct ==
    nfaults = 0 => DistinctIds(collection)

C4_WrongExtensionRejected ==
    [][\A p \in Procs :
        (pc[p] = "idle" /\ kind'[p] = "upload"
            /\ file'[p].name \in RejectedNames)
        => /\ pc'[p] = "done"
           /\ response'[p].status = 400
           /\ tmp_path'[p] = 0
           /\ tmpFiles' = tmpFiles
           /\ log'[p] = <<>>
           /\ data'[p] = <<>>
           /\ collection' = collection]_vars

C4_Witness ==
    /\ UploadDone(1)
    /\ file[1].name = Name_txt
    /\ response[1].status = 400
    /\ collection # <<>>

\* C6: a successful upload reports chunks_count = number of chunks, inserts
\* exactly one record per chunk, and the row count grows by chunks_count; a
\* 3-chunk document into an empty collection gives ids {0,1,2}, row count 3.
C6_SuccessfulUploadCounts ==
    [][\A p \in Procs :
        (pc[p] = "insert" /\ response'[p].status = 200)
        => /\ response'[p].chunks_count = file[p].n
           /\ response'[p].insert_count = response'[p].chunks_count
           /\ RowCount(collection') = RowCount(collection) + file[p].n
           /\ \A i \in 1..file[p].n :
                 collection'[RowCount(collection) + i].text = ChunkList(file[p])[i]
           /\ SubSeq(collection', 1, RowCount(collection)) = collection
           /\ (collection = <<>> /\ file[p].n = 3)
                 => /\ Ids(collection') = {0, 1, 2}
                    /\ RowCount(collection') = 3]_vars

C6_Witness ==
    /\ UploadDone(1)
    /\ response[1].status = 200
    /\ response[1].chunks_count = 3
    /\ RowCount(collection) = 3
    /\ Ids(collection) = {0, 1, 2}

\* C7: an upload that fails in conversion, chunking or embedding answers
\* HTTP 500 with the underlying message, the failed call is not retried and
\* the collection is unchanged; insert is issued at most once, and only
\* after every chunk of the file has been embedded.
C7_FailureMessage(name) ==
    IF name = "convert" THEN "conversion failed" ELSE "embedding failed"

C7_UploadFailureLeavesStore ==
    /\ [](\A p \in Procs : kind[p] = "upload" =>
            /\ Cardinality(Entries(p, "insert")) <= 1
            /\ \A k \in 1..Len(log[p]) :
                  /\ ~log[p][k].ok => k = Len(log[p]) /\ pc[p] = "done"
                  /\ log[p][k].call = "insert" =>
                        /\ Len(log[p][k].data) = file[p].n
                        /\ \A i \in 1..file[p].n : \E j \in 1..(k-1) :
                              /\ log[p][j].call = "embed"
                              /\ log[p][j].chunk = i
                              /\ log[p][j].ok
            /\ \A k, j \in 1..Len(log[p]) :
                  (k # j /\ log[p][k].call = log[p][j].call)
                      => log[p][k].chunk # log[p][j].chunk)
    /\ [][\A p \in Procs :
            (kind[p] = "upload" /\ pc[p] \in {"convert", "embed"}
                /\ ~log'[p][Len(log'[p])].ok)
            => /\ pc'[p] = "done"
               /\ response'[p].status = 500
               /\ response'[p].detail =
                     <<"Error processing file",
                       C7_FailureMessage(log'[p][Len(log'[p])].call)>>
               /\ collection' = collection]_vars

C7_Witness ==
    /\ UploadDone(1)
    /\ response[1].status = 500
    /\ Cardinality(Entries(1, "embed")) = 2
    /\ Failed(1, "embed")
    /\ collection # <<>>

\* C8: in process_documents a failure on one file does not abort the run:
\* every later file is still processed, and if a record was produced one
\* combined insert is issued at the end, holding all records of every file
\* that was processed without error.
C8_CleanFile(p, j) ==
    /\ \E k \in Entries(p, "convert") : log[p][k].file = j /\ log[p][k].ok
    /\ \A k \in Entries(p, "embed") : log[p][k].file = j => log[p][k].ok

C8_BatchSurvivesFileFailure ==
    \A p \in Procs : BatchDone(p) =>
        /\ \A j \in 1..Len(files[p]) :
              Cardinality({ k \in Entries(p, "convert") : log[p][k].file = j }) = 1
        /\ IF data[p] = <<>>
           THEN Entries(p, "insert") = {}
           ELSE /\ Entries(p, "insert") = {Len(log[p])}
                /\ \A j \in 1..Len(files[p]) : C8_CleanFile(p, j) =>
                      \A i \in 1..files[p][j].n :
                          ChunkList(files[p][j])[i]
                              \in Texts(log[p][Len(log[p])].data)

C8_Witness ==
    /\ BatchDone(1)
    /\ Len(files[1]) = 2
    /\ ~C8_CleanFile(1, 1)
    /\ C8_CleanFile(1, 2)
    /\ files[1][2].n >= 1
    /\ Succeeded(1, "insert")

\* C9: two overlapping ingestion calls can obtain the same base_id before
\* either inserts, and then both insert records with the same ids: whenever
\* two overlapping calls started from the same base_id have both inserted,
\* the collection holds two records with that id.
C9_Inserted(p) == pc[p] = "done" /\ Succeeded(p, "insert")

C9_SameBaseCollides ==
    \A p, q \in Procs :
        (p # q /\ kind[p] = kind[q] /\ C9_Inserted(p) /\ C9_Inserted(q))
        => /\ (kind[p] = "batch" /\ current_count[p] = current_count[q])
                 => Twice(collection, current_count[p])
           /\ kind[p] = "upload" => Twice(collection, 0)

C9_Witness ==
    /\ kind[1] = "batch" /\ kind[2] = "batch"
    /\ C9_Inserted(1) /\ C9_Inserted(2)
    /\ Succeeded(1, "stats") /\ Succeeded(2, "stats")
    /\ current_count[1] = current_count[2]
    /\ ~DistinctIds(collection)

\* C10: in process_documents, when a file fails after k >= 1 of its chunks
\* were embedded, the k records stay in the batch and the id counter is not
\* rolled back: the final insert holds them with the records of the other
\* files, and the ids of the whole batch are contiguous from the start id.
C10_EmbeddedBeforeFailure(p, j) ==
    { log[p][k].chunk : k \in { e \in Entries(p, "embed") :
                                   log[p][e].file = j /\ log[p][e].ok } }

C10_NoRollbackOnFileFailure ==
    \A p \in Procs : BatchDone(p) =>
        /\ \A j \in 1..Len(files[p]) : \A i \in C10_EmbeddedBeforeFailure(p, j) :
              /\ ChunkList(files[p][j])[i] \in Texts(data[p])
              /\ \A k \in Entries(p, "insert") :
                    ChunkList(files[p][j])[i] \in Texts(log[p][k].data)
        /\ Len(data[p]) = Cardinality({ e \in Entries(p, "embed") : log[p][e].ok })
        /\ ContiguousFrom(data[p], current_count[p])
        /\ chunk_id[p] = current_count[p] + Len(data[p])

C10_Witness ==
    /\ BatchDone(1)
    /\ Len(files[1]) = 2
    /\ \E k \in Entries(1, "embed") :
          log[1][k].file = 1 /\ log[1][k].chunk = 2 /\ ~log[1][k].ok
    /\ C10_EmbeddedBeforeFailure(1, 2) # {}
    /\ Succeeded(1, "insert")
    /\ current_count[1] > 0
====
